---- MODULE Spec2Model ----
(***************************************************************************)
(* A model of the batch pipeline of pipeline/run_pipeline.py:              *)
(*   read_events_jsonl -> transform -> write_bad_records ->                *)
(*   upsert_dim_users -> upsert_fact_events                                *)
(* over a warehouse (SQLite file) that persists from run to run.           *)
(*                                                                         *)
(* Strings that the code edits character by character (event, user_id)     *)
(* are sequences of one-character strings.  Python's None, float NaN and   *)
(* pandas' NA are one-element sequences that no string operation sees,     *)
(* because astype(str) (AsStr) is applied first, as in the code.           *)
(* Timestamps are whole hours since an epoch; a calendar date is a day     *)
(* number and an hour is 0..23.                                            *)
(***************************************************************************)
EXTENDS Integers, Sequences, FiniteSets, TLC

VARIABLES
    events_file,         \* data/raw/events.jsonl: the sequence of lines
    users_file,          \* the users table read_users_csv returns
    stable_sort,         \* whether this build's default sort keeps ties in input order
    pc,                  \* position in main()
    runs,                \* number of pipeline runs started
    ing,                 \* IngestResult of read_events_jsonl
    cleaned,             \* transform's first result: the cleaned DataFrame
    bad_from_transform,  \* transform's second result
    metrics,             \* transform's third result
    bad_file,            \* data/output/bad_records.jsonl
    db,                  \* data/output/warehouse.db: the committed tables
    et_map,              \* upsert_fact_events' local event -> event_type_id lookup
    report,              \* data/output/data_quality_report.json
    intl,                \* the frame handed to upsert_fact_international_sales
    rerun                \* whether this run reads the files the previous run read

vars == <<events_file, users_file, stable_sort, pc, runs, ing, cleaned,
          bad_from_transform, metrics, bad_file, db, et_map, report, intl, rerun>>

-----------------------------------------------------------------------------
(* Bounds of the model.                                                    *)

MaxRows == 2        \* rows of a DataFrame handed to transform
MaxLines == 2       \* lines of the first events.jsonl
MaxDelivery == 1    \* lines of an events.jsonl delivered for a later run
MaxRuns == 3        \* runs of the pipeline over one warehouse
MaxCount == 2       \* value of a counter of a QualityReport built by hand

-----------------------------------------------------------------------------
(* Values.                                                                 *)

None == <<"None:NoneType">>
NaN == <<"nan:float">>
NA == <<"NA:NAType">>
Missing == <<"key not in dict">>

NaNAmount == -1
NaNText == "nan:float"

IsNull(v) == v \in {None, NaN, NA}

Str_None == <<"N", "o", "n", "e">>
Str_nan == <<"n", "a", "n">>
Str_NA == <<"<", "N", "A", ">">>

\* Series.astype(str) on an object column: str() of every cell, nulls included.
AsStr(v) ==
    IF v = None THEN Str_None
    ELSE IF v = NaN THEN Str_nan
    ELSE IF v = NA THEN Str_NA
    ELSE v

Whitespace == {" ", "\t"}

RECURSIVE LStrip(_)
LStrip(s) ==
    IF s = <<>> THEN <<>>
    ELSE IF Head(s) \in Whitespace THEN LStrip(Tail(s))
    ELSE s

RECURSIVE RStrip(_)
RStrip(s) ==
    IF s = <<>> THEN <<>>
    ELSE IF s[Len(s)] \in Whitespace THEN RStrip(SubSeq(s, 1, Len(s) - 1))
    ELSE s

\* str.strip(): leading and trailing whitespace removed.
Strip(s) == RStrip(LStrip(s))

UpperCase == <<"A", "B", "C", "D", "E", "F", "G", "H", "I", "J", "K", "L", "M",
               "N", "O", "P", "Q", "R", "S", "T", "U", "V", "W", "X", "Y", "Z">>
LowerCase == <<"a", "b", "c", "d", "e", "f", "g", "h", "i", "j", "k", "l", "m",
               "n", "o", "p", "q", "r", "s", "t", "u", "v", "w", "x", "y", "z">>

LowerChar(c) ==
    IF \E i \in 1..Len(UpperCase) : UpperCase[i] = c
    THEN LowerCase[CHOOSE i \in 1..Len(UpperCase) : UpperCase[i] = c]
    ELSE c

\* str.lower()
Lower(s) == [i \in 1..Len(s) |-> LowerChar(s[i])]

\* str.replace(old, new, regex=False) for one-character old and new.
Replace(s, old, new) == [i \in 1..Len(s) |-> IF s[i] = old THEN new ELSE s[i]]

Str_pageview == <<"p", "a", "g", "e", "v", "i", "e", "w">>
Str_page_view == <<"p", "a", "g", "e", "_", "v", "i", "e", "w">>
Str_page_space_view == <<"p", "a", "g", "e", " ", "v", "i", "e", "w">>
Str_signup == <<"s", "i", "g", "n", "u", "p">>
Str_purchase == <<"p", "u", "r", "c", "h", "a", "s", "e">>

ALLOWED_EVENTS == {Str_pageview, Str_signup, Str_purchase}

\* Series.replace({"page_view": "pageview", "page view": "pageview"}): whole values.
CollapseVariants(s) ==
    IF s = Str_page_view \/ s = Str_page_space_view THEN Str_pageview ELSE s

\* transform's normalisation of one cell of the event column.
NormalizeEvent(v) ==
    CollapseVariants(Replace(Replace(Lower(Strip(AsStr(v))), "-", "_"), " ", "_"))

\* transform's normalisation of one cell of the user_id column.
NormalizeUserId(v) ==
    LET s == Strip(AsStr(v))
    IN IF s \in {<<>>, Str_nan, Str_None, Str_NA} THEN NA ELSE s

Digits == <<"0", "1", "2", "3", "4", "5", "6", "7", "8", "9">>

IsDigit(c) == \E i \in 1..Len(Digits) : Digits[i] = c

DigitValue(c) == (CHOOSE i \in 1..Len(Digits) : Digits[i] = c) - 1

RECURSIVE ParseDigits(_, _)
ParseDigits(s, acc) ==
    IF s = <<>> THEN acc ELSE ParseDigits(Tail(s), 10 * acc + DigitValue(Head(s)))

\* pd.to_numeric(errors="coerce") of one amount cell: a numeric string becomes its
\* number, anything else (None, NaN, text) becomes NaN.
ToNumeric(v) ==
    IF ~IsNull(v) /\ v # <<>> /\ \A i \in 1..Len(v) : IsDigit(v[i])
    THEN ParseDigits(v, 0)
    ELSE NaNAmount

HoursPerDay == 24
EventDate(ts) == ts \div HoursPerDay
EventHour(ts) == ts % HoursPerDay

-----------------------------------------------------------------------------
(* DataFrames.  A frame is its set of column names and its rows in order;  *)
(* a row holds NaN in a column its source record did not give.             *)

EventColumns(good) ==
    {"event_id", "ts", "event"}
        \cup (IF \E i \in 1..Len(good) : good[i].user_id # Missing THEN {"user_id"} ELSE {})
        \cup (IF \E i \in 1..Len(good) : good[i].amount # Missing THEN {"amount"} ELSE {})

FillMissing(v) == IF v = Missing THEN NaN ELSE v

\* pd.DataFrame(good): the columns are the union of the records' keys.
DataFrame(good) ==
    [columns |-> IF good = <<>> THEN {} ELSE EventColumns(good),
     rows |-> [i \in 1..Len(good) |->
                 [event_id |-> good[i].event_id,
                  ts |-> good[i].ts,
                  user_id |-> FillMissing(good[i].user_id),
                  event |-> good[i].event,
                  amount |-> FillMissing(good[i].amount)]]]

\* Whether row a is placed before row b by sort_values("ts").  The default kind,
\* quicksort, is not a stable sort: where two rows tie on ts the build decides.
SortsBefore(rows, a, b, stable) ==
    \/ rows[a].ts < rows[b].ts
    \/ rows[a].ts = rows[b].ts /\ (IF stable THEN a < b ELSE a > b)

SortRank(rows, a, stable) ==
    1 + Cardinality({b \in 1..Len(rows) : SortsBefore(rows, b, a, stable)})

\* events.sort_values("ts")
SortValues(rows, stable) ==
    [k \in 1..Len(rows) |->
        rows[CHOOSE a \in 1..Len(rows) : SortRank(rows, a, stable) = k]]

KeepLast(rows, i) == ~\E j \in (i + 1)..Len(rows) : rows[j].event_id = rows[i].event_id

RECURSIVE DropDuplicatesFrom(_, _)
DropDuplicatesFrom(rows, i) ==
    IF i > Len(rows) THEN <<>>
    ELSE (IF KeepLast(rows, i) THEN <<rows[i]>> ELSE <<>>)
             \o DropDuplicatesFrom(rows, i + 1)

\* drop_duplicates("event_id", keep="last")
DropDuplicates(rows) == DropDuplicatesFrom(rows, 1)

\* One cleaned row: the left row with the user's attributes, or NaN for no user.
Joined(e, country, signup_source) ==
    [event_id |-> e.event_id, ts |-> e.ts, user_id |-> e.user_id, event |-> e.event,
     amount |-> e.amount, event_date |-> e.event_date, event_hour |-> e.event_hour,
     country |-> country, signup_source |-> signup_source]

MatchingUsers(e, users) == SelectSeq(users, LAMBDA u : u.user_id = e.user_id)

MergeRow(e, users) ==
    LET m == MatchingUsers(e, users)
    IN IF m = <<>> THEN <<Joined(e, NaNText, NaNText)>>
       ELSE [k \in 1..Len(m) |-> Joined(e, m[k].country, m[k].signup_source)]

RECURSIVE MergeFrom(_, _, _)
MergeFrom(events, users, i) ==
    IF i > Len(events) THEN <<>>
    ELSE MergeRow(events[i], users) \o MergeFrom(events, users, i + 1)

\* events.merge(users, on="user_id", how="left"): left order kept, one output row
\* per matching users row, and one with NaN attributes where none matches.
Merge(events, users) == MergeFrom(events, users, 1)

-----------------------------------------------------------------------------
(* transform(events, users)                                                *)

ZeroMetrics == [dedup_removed |-> 0, null_user_id |-> 0, invalid_event_type |-> 0,
                rows_out |-> 0]

\* The event column after normalisation and canonicalisation.
WithNormalizedEvent(rows) ==
    [i \in 1..Len(rows) |-> [rows[i] EXCEPT !.event = NormalizeEvent(rows[i].event)]]

IsInvalid(r) == r.event \notin ALLOWED_EVENTS

\* One quarantine entry of transform.
InvalidRecord(r) ==
    [event_id |-> r.event_id,
     ts |-> r.ts,
     user_id |-> IF IsNull(r.user_id) THEN None ELSE AsStr(r.user_id),
     event |-> r.event,
     _reason |-> <<"invalid_event_type">>]

\* Type normalisation and the derived columns of one deduplicated row.
Enrich(r, columns) ==
    [event_id |-> r.event_id,
     ts |-> r.ts,
     user_id |-> IF "user_id" \in columns THEN NormalizeUserId(r.user_id) ELSE NA,
     event |-> r.event,
     amount |-> IF "amount" \in columns THEN ToNumeric(r.amount) ELSE NaNAmount,
     event_date |-> EventDate(r.ts),
     event_hour |-> EventHour(r.ts)]

\* users.copy() with user_id as a stripped string.
UsersForJoin(users) ==
    [i \in 1..Len(users) |-> [users[i] EXCEPT !.user_id = Strip(AsStr(users[i].user_id))]]

\* The conflated counter: rows without a user_id and rows without a user.
CountNullUserId_OrUnmatched(out) ==
    Cardinality({i \in 1..Len(out) : IsNull(out[i].user_id) \/ out[i].country = NaNText})

CountNullUserId(out) == Cardinality({i \in 1..Len(out) : IsNull(out[i].user_id)})

\* transform: what it returns, or that it raised (raised = TRUE, nothing returned).
Transform(events, users, stable) ==
    IF events.rows = <<>>
    THEN [raised |-> FALSE, out |-> <<>>, bad_records |-> <<>>, metrics |-> ZeroMetrics]
    ELSE
      LET normalized == WithNormalizedEvent(events.rows)
          invalid_rows == SelectSeq(normalized, IsInvalid)
          invalid_count == Len(invalid_rows)
          valid == SelectSeq(normalized, LAMBDA r : ~IsInvalid(r))
          before == Len(valid)
          deduped == DropDuplicates(SortValues(valid, stable))
          dedup_removed == before - Len(deduped)
          enriched == [i \in 1..Len(deduped) |-> Enrich(deduped[i], events.columns)]
          out == Merge(enriched, UsersForJoin(users))
      IN IF invalid_count > 0 /\ "user_id" \notin events.columns
         THEN \* events.loc[invalid_mask, [.., "user_id", ..]] raises KeyError
              [raised |-> TRUE, out |-> <<>>, bad_records |-> <<>>,
               metrics |-> ZeroMetrics]
         ELSE [raised |-> FALSE,
               out |-> out,
               bad_records |-> [i \in 1..Len(invalid_rows) |->
                                   InvalidRecord(invalid_rows[i])],
               metrics |-> [dedup_removed |-> dedup_removed,
                            null_user_id |-> CountNullUserId(out),
                            invalid_event_type |-> invalid_count,
                            rows_out |-> Len(out)]]

-----------------------------------------------------------------------------
(* read_events_jsonl(path)                                                 *)

MissingId == "key not in dict"
MissingTs == -2
BAD_TIME == -1

REQUIRED_FIELDS == <<"event", "event_id", "ts">>

IsMissingField(obj, f) ==
    \/ f = "event" /\ obj.event = Missing
    \/ f = "event_id" /\ obj.event_id = MissingId
    \/ f = "ts" /\ obj.ts = MissingTs

\* sorted(REQUIRED_FIELDS - set(obj.keys()))
MissingFields(obj) == SelectSeq(REQUIRED_FIELDS, LAMBDA f : IsMissingField(obj, f))

\* What one line contributes: nothing (blank), a good record, a quarantine entry,
\* or an exception that ends read_events_jsonl.
IngestLine(line, i) ==
    IF line.kind = "blank" THEN [to |-> "skip"]
    ELSE IF line.kind = "bad_json"
    THEN [to |-> "bad",
          rec |-> [_line |-> i, _reason |-> <<"json_decode_error", line.msg>>,
                   _raw |-> line.kind]]
    ELSE IF line.kind = "not_object"
    THEN [to |-> "raise"]   \* obj.keys(): AttributeError
    ELSE IF MissingFields(line.obj) # <<>>
    THEN [to |-> "bad",
          rec |-> [_line |-> i, _reason |-> <<"missing_fields">> \o MissingFields(line.obj),
                   obj |-> line.obj]]
    ELSE IF line.obj.ts = BAD_TIME
    THEN [to |-> "bad",
          rec |-> [_line |-> i, _reason |-> <<"invalid_timestamp">>, obj |-> line.obj]]
    ELSE [to |-> "good", rec |-> line.obj]

RECURSIVE IngestFrom(_, _, _)
IngestFrom(lines, i, acc) ==
    IF i > Len(lines) THEN acc
    ELSE LET r == IngestLine(lines[i], i)
         IN IF r.to = "raise" THEN [acc EXCEPT !.raised = TRUE]
            ELSE IF r.to = "good"
            THEN IngestFrom(lines, i + 1, [acc EXCEPT !.good = Append(@, r.rec)])
            ELSE IF r.to = "bad"
            THEN IngestFrom(lines, i + 1, [acc EXCEPT !.bad = Append(@, r.rec)])
            ELSE IngestFrom(lines, i + 1, acc)

\* read_events_jsonl: the IngestResult, or that it raised.  With no line at all
\* the loop variable i is never bound and the closing log.info raises.
ReadEventsJsonl(lines) ==
    LET r == IngestFrom(lines, 1, [raised |-> FALSE, good |-> <<>>, bad |-> <<>>])
    IN IF lines = <<>> \/ r.raised
       THEN [raised |-> TRUE, events |-> DataFrame(<<>>), bad_records |-> <<>>]
       ELSE [raised |-> FALSE, events |-> DataFrame(r.good), bad_records |-> r.bad]

-----------------------------------------------------------------------------
(* load.py: the upserts.  A table is the set of its rows.                  *)

\* INSERT ... ON CONFLICT(key) DO UPDATE: the row replaces the one with its key.
UpsertUser(table, row) == {r \in table : r.user_id # row.user_id} \cup {row}

\* ON CONFLICT ... SET amount = amount + excluded.amount: the amounts add up.
UpsertFact_Accumulate(table, row) ==
    {r \in table : r.event_id # row.event_id}
        \cup {[row EXCEPT !.amount =
                  IF \E r \in table : r.event_id = row.event_id
                  THEN (CHOOSE r \in table : r.event_id = row.event_id).amount + @
                  ELSE @]}

UpsertFact(table, row) == {r \in table : r.event_id # row.event_id} \cup {row}

MaxId(table) ==
    IF table = {} THEN 0
    ELSE CHOOSE m \in {r.event_type_id : r \in table} :
             \A r \in table : r.event_type_id <= m

\* The schema's dim_event_types: event is unique and event_type_id is the next
\* integer.  INSERT OR IGNORE leaves the table alone when the event is there.
InsertOrIgnoreEventType(table, event) ==
    IF \E r \in table : r.event = event THEN table
    ELSE table \cup {[event |-> event, event_type_id |-> MaxId(table) + 1]}

\* conn.execute of one of load.py's statements with one tuple of its payload.
Execute(statement, table, row) ==
    IF statement = "INSERT INTO dim_users ... ON CONFLICT(user_id) DO UPDATE"
    THEN UpsertUser(table, row)
    ELSE IF statement = "INSERT OR IGNORE INTO dim_event_types(event)"
    THEN InsertOrIgnoreEventType(table, row)
    ELSE UpsertFact(table, row)

\* conn.executemany(statement, payload): the statement once per tuple, in order.
\* An executemany into a table emptied first.
ExecuteMany_Truncating(table, payload, statement) ==
    LET after[i \in 0..Len(payload)] ==
            IF i = 0 THEN {} ELSE Execute(statement, after[i - 1], payload[i])
    IN after[Len(payload)]

ExecuteMany(table, payload, statement) ==
    LET after[i \in 0..Len(payload)] ==
            IF i = 0 THEN table ELSE Execute(statement, after[i - 1], payload[i])
    IN after[Len(payload)]

FillUnknown(v) == IF v = NaNText THEN "unknown" ELSE v

\* u[["user_id", "country", "signup_source"]] after the type normalisation.
DimUserRows(cleaned_rows) ==
    [i \in 1..Len(cleaned_rows) |->
        [user_id |-> AsStr(cleaned_rows[i].user_id),
         country |-> FillUnknown(cleaned_rows[i].country),
         signup_source |-> FillUnknown(cleaned_rows[i].signup_source)]]

RECURSIVE DropDuplicateRowsFrom(_, _)
DropDuplicateRowsFrom(rows, i) ==
    IF i > Len(rows) THEN <<>>
    ELSE (IF \E j \in 1..(i - 1) : rows[j] = rows[i] THEN <<>> ELSE <<rows[i]>>)
             \o DropDuplicateRowsFrom(rows, i + 1)

\* DataFrame.drop_duplicates(): the first of equal rows is kept.
DropDuplicateRows(rows) == DropDuplicateRowsFrom(rows, 1)

DimUsersPayload(cleaned_rows) ==
    SelectSeq(DropDuplicateRows(DimUserRows(cleaned_rows)),
              LAMBDA r : ~IsNull(r.user_id) /\ Strip(r.user_id) # <<>>)

\* upsert_dim_users(conn, cleaned): the table after the commit.
UpsertDimUsers(dim_users, cleaned_rows) ==
    IF cleaned_rows = <<>> THEN dim_users
    ELSE ExecuteMany(dim_users, DimUsersPayload(cleaned_rows),
                     "INSERT INTO dim_users ... ON CONFLICT(user_id) DO UPDATE")

Ascii == <<"\t", " ", "-">> \o Digits \o <<"<", ">">> \o UpperCase \o <<"_">> \o LowerCase

Ord(c) == CHOOSE k \in 1..Len(Ascii) : Ascii[k] = c

\* Python's order on strings: by code point, a prefix first.
RECURSIVE StrLess(_, _)
StrLess(a, b) ==
    IF b = <<>> THEN FALSE
    ELSE IF a = <<>> THEN TRUE
    ELSE IF Head(a) = Head(b) THEN StrLess(Tail(a), Tail(b))
    ELSE Ord(Head(a)) < Ord(Head(b))

\* sorted(S) for a set of strings.
SortedStrings(S) ==
    [k \in 1..Cardinality(S) |->
        CHOOSE e \in S : Cardinality({d \in S : StrLess(d, e)}) = k - 1]

\* INSERT OR REPLACE INTO dim_event_types(event): a kind that is there is deleted
\* and inserted again, under the next id.
UpsertDimEventTypes_Replace(dim_event_types, cleaned_rows) ==
    IF cleaned_rows = <<>> THEN dim_event_types
    ELSE LET events == SortedStrings({AsStr(cleaned_rows[i].event) :
                                         i \in 1..Len(cleaned_rows)})
             after[i \in 0..Len(events)] ==
                 IF i = 0 THEN dim_event_types
                 ELSE InsertOrIgnoreEventType(
                          {r \in after[i - 1] : r.event # events[i]}, events[i])
         IN after[Len(events)]

\* upsert_dim_event_types(conn, cleaned)
UpsertDimEventTypes(dim_event_types, cleaned_rows) ==
    IF cleaned_rows = <<>> THEN dim_event_types
    ELSE ExecuteMany(dim_event_types,
                     SortedStrings({AsStr(cleaned_rows[i].event) :
                                       i \in {j \in 1..Len(cleaned_rows) :
                                                 ~IsNull(cleaned_rows[j].event)}}),
                     "INSERT OR IGNORE INTO dim_event_types(event)")

\* A date upsert that inserts nothing.
UpsertDimDates_Skipped(dim_dates, cleaned_rows) == dim_dates

\* upsert_dim_dates(conn, cleaned): INSERT OR IGNORE of every event_date.
UpsertDimDates(dim_dates, cleaned_rows) ==
    IF cleaned_rows = <<>> THEN dim_dates
    ELSE dim_dates \cup {[date_key |-> cleaned_rows[i].event_date] :
                            i \in 1..Len(cleaned_rows)}

\* event_type_id_map(conn): {event: event_type_id} as a set of pairs.
EventTypeIdMap(dim_event_types) == dim_event_types

HasEventType(map, event) == \E r \in map : r.event = event

\* The lookup counted from 0 where the table counts from 1.
LookupEventType_ZeroBased(map, event) ==
    (CHOOSE r \in map : r.event = event).event_type_id - 1

LookupEventType(map, event) == (CHOOSE r \in map : r.event = event).event_type_id

\* One tuple of upsert_fact_events' payload.
FactRow(r, map) ==
    [event_id |-> r.event_id,
     ts |-> r.ts,
     user_id |-> LET u == AsStr(r.user_id)
                 IN IF IsNull(u) \/ Strip(u) = <<>> THEN None ELSE u,
     event_type_id |-> LookupEventType(map, AsStr(r.event)),
     amount |-> r.amount,
     event_date |-> r.event_date,
     event_hour |-> r.event_hour]

\* int(r.event_type_id) raises for an event the lookup does not hold.
FactPayloadRaises(cleaned_rows, map) ==
    \E i \in 1..Len(cleaned_rows) : ~HasEventType(map, AsStr(cleaned_rows[i].event))

FactPayload(cleaned_rows, map) ==
    [i \in 1..Len(cleaned_rows) |-> FactRow(cleaned_rows[i], map)]

\* What upsert_fact_events returns: len(payload), 0 for an empty frame.
FactEventsCount(cleaned_rows, map) ==
    IF cleaned_rows = <<>> THEN 0 ELSE Len(FactPayload(cleaned_rows, map))

\* The executemany of upsert_fact_events and its commit.
UpsertFactRows(fact_events, cleaned_rows, map) ==
    ExecuteMany(fact_events, FactPayload(cleaned_rows, map),
                "INSERT INTO fact_events ... ON CONFLICT(event_id) DO UPDATE")

-----------------------------------------------------------------------------
(* quality.py: the QualityReport and what write_quality_report writes.     *)
(* run_utc, the time of the run, is left out.  A float that is a quotient  *)
(* of two counters is the fraction in lowest terms.                        *)

RECURSIVE Gcd(_, _)
Gcd(a, b) == IF b = 0 THEN a ELSE Gcd(b, a % b)

\* float(a / b) for b > 0
Quotient(a, b) == [num |-> a \div Gcd(a, b), den |-> b \div Gcd(a, b)]

\* 0.0
ZeroFloat == [num |-> 0, den |-> 1]

\* QualityReport.rejected_total
RejectedTotal(r) == r.ingest_bad + r.transform_invalid_event_type

\* A reject_rate over the accepted records instead of the raw lines.
RejectRate_OverGood(r) ==
    IF r.ingest_good # 0 THEN Quotient(RejectedTotal(r), r.ingest_good) ELSE ZeroFloat

\* QualityReport.reject_rate
RejectRate(r) ==
    LET denom == IF r.raw_lines # 0 THEN r.raw_lines ELSE 0
    IN IF denom # 0 THEN Quotient(RejectedTotal(r), denom) ELSE ZeroFloat

\* write_quality_report: the fields and the two derived metrics.
QualityPayload(r) ==
    [raw_lines |-> r.raw_lines,
     ingest_good |-> r.ingest_good,
     ingest_bad |-> r.ingest_bad,
     transform_invalid_event_type |-> r.transform_invalid_event_type,
     loaded_rows |-> r.loaded_rows,
     dedup_removed |-> r.dedup_removed,
     null_user_id |-> r.null_user_id,
     rejected_total |-> RejectedTotal(r),
     reject_rate |-> RejectRate(r)]

\* The QualityReport main() builds; metrics has none of the keys raw_lines_in,
\* ingest_good and ingest_bad, so the defaults are taken.
RunQualityReport(ingested, transform_metrics) ==
    [raw_lines |-> Len(ingested.events.rows) + Len(ingested.bad_records),
     ingest_good |-> Len(ingested.events.rows),
     ingest_bad |-> Len(ingested.bad_records),
     transform_invalid_event_type |-> transform_metrics.invalid_event_type,
     loaded_rows |-> transform_metrics.rows_out,
     dedup_removed |-> transform_metrics.dedup_removed,
     null_user_id |-> transform_metrics.null_user_id]

\* No report has been written.
NoReport == <<>>

-----------------------------------------------------------------------------
(* analytics.py: query_dau.  SELECT event_date, COUNT(DISTINCT user_id)    *)
(* FROM fact_events WHERE user_id IS NOT NULL GROUP BY event_date: one row *)
(* per date that has a fact row with a user_id, as a function of the date. *)

QueryDau(fact_events) ==
    LET rows == {f \in fact_events : f.user_id # None}
    IN [d \in {f.event_date : f \in rows} |->
           Cardinality({f.user_id : f \in {g \in rows : g.event_date = d}})]

-----------------------------------------------------------------------------
(* The warehouse.                                                          *)

EmptyDb == [dim_users |-> {}, dim_event_types |-> {}, dim_dates |-> {},
            fact_events |-> {}]

NoIngest == [events |-> DataFrame(<<>>), bad_records |-> <<>>]

\* No international_sales.jsonl: an empty frame.
NoSales == [columns |-> {}, rows |-> <<>>]

-----------------------------------------------------------------------------
(* Inputs.                                                                 *)

EventIds == {"e1", "e2"}
Timestamps == {23, 25}

Str_Page_View == <<"P", "a", "g", "e", " ", "V", "i", "e", "w">>
Str_logout == <<"l", "o", "g", "o", "u", "t">>

RawEvents == {Str_signup, Str_Page_View, Str_logout}
RawUserIds == {Missing, None, <<"1">>, <<"9">>}
RawAmounts == {<<"7">>}

GoodRecords ==
    [event_id : EventIds, ts : Timestamps, user_id : RawUserIds, event : RawEvents,
     amount : RawAmounts]

SeqsUpTo(S, n) == UNION {[1..k -> S] : k \in 0..n}

ObjectLine(o) == [kind |-> "object", obj |-> o, msg |-> ""]

\* Lines that pass the validation of read_events_jsonl.
EventLines == {ObjectLine(o) : o \in GoodRecords}

\* Lines that do not: blank, not JSON, JSON but no object, a timestamp that does
\* not parse, missing fields, a missing field with such a timestamp, no ts.
OtherLines ==
    {[kind |-> "blank", obj |-> <<>>, msg |-> ""],
     [kind |-> "bad_json", obj |-> <<>>, msg |-> "Expecting value"],
     [kind |-> "not_object", obj |-> <<>>, msg |-> ""],
     ObjectLine([event_id |-> "e1", ts |-> BAD_TIME, user_id |-> <<"1">>,
                 event |-> Str_signup, amount |-> Missing]),
     ObjectLine([event_id |-> MissingId, ts |-> 23, user_id |-> <<"1">>,
                 event |-> Missing, amount |-> Missing]),
     ObjectLine([event_id |-> "e2", ts |-> BAD_TIME, user_id |-> <<"1">>,
                 event |-> Missing, amount |-> Missing]),
     ObjectLine([event_id |-> "e2", ts |-> MissingTs, user_id |-> <<"1">>,
                 event |-> Str_signup, amount |-> Missing])}

FileLines == EventLines \cup OtherLines

\* The lines of the files delivered when the pipeline runs repeatedly: good
\* records of every kind, with and without a user, and the blank line.
DeliveredLines ==
    {ObjectLine(o) : o \in [event_id : EventIds, ts : Timestamps,
                            user_id : {Missing, <<"1">>},
                            event : RawEvents, amount : RawAmounts]}
        \cup {[kind |-> "blank", obj |-> <<>>, msg |-> ""]}

User_US == [user_id |-> <<"1">>, country |-> "US", signup_source |-> "organic"]
User_DE == [user_id |-> <<"1">>, country |-> "DE", signup_source |-> "ads"]

\* users.csv: one row for user 1, or two rows for the same user.
UsersTables == {<<User_US>>, <<User_US, User_DE>>}

-----------------------------------------------------------------------------
(* Steps of main().                                                        *)

RunLocals == <<ing, cleaned, bad_from_transform, metrics, et_map>>
Inputs == <<events_file, users_file, stable_sort, intl>>

\* ing = read_events_jsonl(raw_events); users = read_users_csv(raw_users)
Ingest ==
    /\ pc = "start"
    /\ LET r == ReadEventsJsonl(events_file)
       IN IF r.raised
          THEN pc' = "raised" /\ UNCHANGED ing
          ELSE /\ pc' = "ingested"
               /\ ing' = [events |-> r.events, bad_records |-> r.bad_records]
    /\ UNCHANGED <<Inputs, runs, cleaned, bad_from_transform, metrics, bad_file, db,
                   et_map, report, rerun>>

\* cleaned, bad_from_transform, metrics = transform(ing.events, users)
TransformStep ==
    /\ pc = "ingested"
    /\ LET r == Transform(ing.events, users_file, stable_sort)
       IN IF r.raised
          THEN /\ pc' = "raised"
               /\ UNCHANGED <<cleaned, bad_from_transform, metrics>>
          ELSE /\ pc' = "transformed"
               /\ cleaned' = r.out
               /\ bad_from_transform' = r.bad_records
               /\ metrics' = r.metrics
    /\ UNCHANGED <<Inputs, runs, ing, bad_file, db, et_map, report, rerun>>

\* write_bad_records(bad_path, ingest bad + transform bad): the file is rewritten.
WriteBadRecords ==
    /\ pc = "transformed"
    /\ bad_file' = ing.bad_records \o bad_from_transform
    /\ pc' = "bad_written"
    /\ UNCHANGED <<Inputs, runs, RunLocals, db, report, rerun>>

\* connect, init_schema, upsert_dim_users(conn, cleaned)
LoadDimUsers ==
    /\ pc = "bad_written"
    /\ db' = [db EXCEPT !.dim_users = UpsertDimUsers(@, cleaned)]
    /\ pc' = "dim_users"
    /\ UNCHANGED <<Inputs, runs, RunLocals, bad_file, report, rerun>>

\* upsert_fact_events(conn, cleaned) with an empty frame: return 0
LoadNoFacts ==
    /\ pc = "dim_users"
    /\ cleaned = <<>>
    /\ pc' = "loaded"
    /\ UNCHANGED <<Inputs, runs, RunLocals, bad_file, db, report, rerun>>

\* upsert_fact_events: upsert_dim_event_types(conn, cleaned)
LoadDimEventTypes ==
    /\ pc = "dim_users"
    /\ cleaned # <<>>
    /\ db' = [db EXCEPT !.dim_event_types = UpsertDimEventTypes(@, cleaned)]
    /\ pc' = "dim_event_types"
    /\ UNCHANGED <<Inputs, runs, RunLocals, bad_file, report, rerun>>

\* upsert_fact_events: upsert_dim_dates(conn, cleaned)
LoadDimDates ==
    /\ pc = "dim_event_types"
    /\ db' = [db EXCEPT !.dim_dates = UpsertDimDates(@, cleaned)]
    /\ pc' = "dim_dates"
    /\ UNCHANGED <<Inputs, runs, RunLocals, bad_file, report, rerun>>

\* upsert_fact_events: et_map = event_type_id_map(conn)
ReadEventTypeIdMap ==
    /\ pc = "dim_dates"
    /\ et_map' = EventTypeIdMap(db.dim_event_types)
    /\ pc' = "et_map"
    /\ UNCHANGED <<Inputs, runs, ing, cleaned, bad_from_transform, metrics, bad_file, db,
                   report, rerun>>

\* upsert_fact_events: the payload, the executemany and the commit
LoadFactEvents ==
    /\ pc = "et_map"
    /\ IF FactPayloadRaises(cleaned, et_map)
       THEN pc' = "raised" /\ UNCHANGED db
       ELSE /\ db' = [db EXCEPT !.fact_events = UpsertFactRows(@, cleaned, et_map)]
            /\ pc' = "loaded"
    /\ UNCHANGED <<Inputs, runs, RunLocals, bad_file, report, rerun>>

\* The with block is left; report = QualityReport(...); write_quality_report
WriteQualityReport ==
    /\ pc = "loaded"
    /\ report' = QualityPayload(RunQualityReport(ing, metrics))
    /\ pc' = "done"
    /\ UNCHANGED <<Inputs, runs, RunLocals, bad_file, db, rerun>>

RunEnded == pc \in {"done", "raised"}

ResetRunLocals ==
    /\ ing' = NoIngest
    /\ cleaned' = <<>>
    /\ bad_from_transform' = <<>>
    /\ metrics' = ZeroMetrics
    /\ et_map' = {}

\* The pipeline is run again over the files as they are.
Rerun ==
    /\ RunEnded
    /\ runs < MaxRuns
    /\ runs' = runs + 1
    /\ pc' = "start"
    /\ rerun' = TRUE
    /\ ResetRunLocals
    /\ UNCHANGED <<Inputs, bad_file, db, report>>

\* A new events.jsonl is delivered and the pipeline is run over it.
RunNewInput ==
    /\ RunEnded
    /\ runs < MaxRuns
    /\ runs' = runs + 1
    /\ pc' = "start"
    /\ rerun' = FALSE
    /\ events_file' \in SeqsUpTo(DeliveredLines, MaxDelivery)
    /\ ResetRunLocals
    /\ UNCHANGED <<users_file, stable_sort, intl, bad_file, db, report>>

\* A new warehouse and a first events.jsonl of up to MaxLines lines.
Init ==
    /\ events_file \in SeqsUpTo(DeliveredLines, MaxLines)
    /\ users_file \in UsersTables
    /\ stable_sort \in BOOLEAN
    /\ pc = "start"
    /\ runs = 1
    /\ ing = NoIngest
    /\ cleaned = <<>>
    /\ bad_from_transform = <<>>
    /\ metrics = ZeroMetrics
    /\ bad_file = <<>>
    /\ db = EmptyDb
    /\ et_map = {}
    /\ report = NoReport
    /\ intl = NoSales
    /\ rerun = FALSE

Next ==
    \/ Ingest
    \/ TransformStep
    \/ WriteBadRecords
    \/ LoadDimUsers
    \/ LoadNoFacts
    \/ LoadDimEventTypes
    \/ LoadDimDates
    \/ ReadEventTypeIdMap
    \/ LoadFactEvents
    \/ WriteQualityReport
    \/ Rerun
    \/ RunNewInput

Spec == Init /\ [][Next]_vars

\* One run of the pipeline over a new warehouse, for every events.jsonl of up to
\* MaxLines lines.
InitRun ==
    /\ events_file \in SeqsUpTo(FileLines, MaxLines)
    /\ users_file \in UsersTables
    /\ stable_sort \in BOOLEAN
    /\ pc = "start"
    /\ runs = 1
    /\ ing = NoIngest
    /\ cleaned = <<>>
    /\ bad_from_transform = <<>>
    /\ metrics = ZeroMetrics
    /\ bad_file = <<>>
    /\ db = EmptyDb
    /\ et_map = {}
    /\ report = NoReport
    /\ intl = NoSales
    /\ rerun = FALSE

NextRun ==
    \/ Ingest
    \/ TransformStep
    \/ WriteBadRecords
    \/ LoadDimUsers
    \/ LoadNoFacts
    \/ LoadDimEventTypes
    \/ LoadDimDates
    \/ ReadEventTypeIdMap
    \/ LoadFactEvents
    \/ WriteQualityReport

SpecRun == InitRun /\ [][NextRun]_vars

\* transform as a function: every DataFrame of up to MaxRows good records.
InitTransform ==
    /\ events_file = <<>>
    /\ users_file \in UsersTables
    /\ stable_sort \in BOOLEAN
    /\ pc = "ingested"
    /\ runs = 1
    /\ \E good \in SeqsUpTo(GoodRecords, MaxRows) :
          ing = [events |-> DataFrame(good), bad_records |-> <<>>]
    /\ cleaned = <<>>
    /\ bad_from_transform = <<>>
    /\ metrics = ZeroMetrics
    /\ bad_file = <<>>
    /\ db = EmptyDb
    /\ et_map = {}
    /\ report = NoReport
    /\ intl = NoSales
    /\ rerun = FALSE

NextTransform == TransformStep

SpecTransform == InitTransform /\ [][NextTransform]_vars

\* Spellings of the page-view event: each word in lower, title or upper case,
\* joined by nothing, "_", "-", one space or two spaces, with or without a
\* leading and a trailing space.
PageWords == {<<"p", "a", "g", "e">>, <<"P", "a", "g", "e">>, <<"P", "A", "G", "E">>}
ViewWords == {<<"v", "i", "e", "w">>, <<"V", "i", "e", "w">>, <<"V", "I", "E", "W">>}
Separators == {<<>>, <<"_">>, <<"-">>, <<" ">>, <<" ", " ">>}
Padding == {<<>>, <<" ">>}

PageviewVariants ==
    {lead \o page \o sep \o view \o trail :
        lead \in Padding, page \in PageWords, sep \in Separators, view \in ViewWords,
        trail \in Padding}

\* transform over a frame of one record, for every spelling of its event.
InitCanon ==
    /\ events_file = <<>>
    /\ users_file = <<User_US>>
    /\ stable_sort \in BOOLEAN
    /\ pc = "ingested"
    /\ runs = 1
    /\ \E e \in PageviewVariants \cup ALLOWED_EVENTS :
          ing = [events |-> DataFrame(<<[event_id |-> "e1", ts |-> 23,
                                         user_id |-> <<"1">>, event |-> e,
                                         amount |-> Missing]>>),
                 bad_records |-> <<>>]
    /\ cleaned = <<>>
    /\ bad_from_transform = <<>>
    /\ metrics = ZeroMetrics
    /\ bad_file = <<>>
    /\ db = EmptyDb
    /\ et_map = {}
    /\ report = NoReport
    /\ intl = NoSales
    /\ rerun = FALSE

SpecCanon == InitCanon /\ [][NextTransform]_vars

(* The quality report alone: write_quality_report applied to a QualityReport *)
(* whose counters are any numbers up to MaxCount, next to the report of a    *)
(* pipeline run (one users table, the stable sort).                          *)

QualityCounts == 0 .. MaxCount

QualityReports ==
    [raw_lines : QualityCounts, ingest_good : QualityCounts, ingest_bad : QualityCounts,
     transform_invalid_event_type : QualityCounts, loaded_rows : {0},
     dedup_removed : {0}, null_user_id : {0}]

\* write_quality_report(path, report) for a report built by hand
WriteAnyQualityReport ==
    /\ pc = "quality"
    /\ \E r \in QualityReports : report' = QualityPayload(r)
    /\ pc' = "quality_written"
    /\ UNCHANGED <<Inputs, runs, RunLocals, bad_file, db, rerun>>

InitQuality ==
    /\ \/ /\ events_file \in SeqsUpTo(FileLines, MaxLines)
          /\ pc = "start"
       \/ /\ events_file = <<>>
          /\ pc = "quality"
    /\ users_file = <<User_US>>
    /\ stable_sort = TRUE
    /\ runs = 1
    /\ ing = NoIngest
    /\ cleaned = <<>>
    /\ bad_from_transform = <<>>
    /\ metrics = ZeroMetrics
    /\ bad_file = <<>>
    /\ db = EmptyDb
    /\ et_map = {}
    /\ report = NoReport
    /\ intl = NoSales
    /\ rerun = FALSE

NextQuality ==
    \/ NextRun
    \/ WriteAnyQualityReport

SpecQuality == InitQuality /\ [][NextQuality]_vars

(* Persistence failures.  An executemany that fails at its row k + 1 has    *)
(* applied k rows inside the connection's open transaction; the exception  *)
(* leaves the upsert before its conn.commit(), leaves the with block of    *)
(* main(), whose exit rolls the transaction back, and ends the run.        *)

\* A with block left without a rollback: the open transaction is kept.
Rollback_KeepsPending(committed, pending) == pending

\* What the warehouse holds once the with block is left on an exception:
\* Connection.__exit__ rolls the open transaction back.
Rollback(committed, pending) == committed

\* The payload of upsert_dim_event_types.
EventTypesPayload(cleaned_rows) ==
    SortedStrings({AsStr(cleaned_rows[i].event) :
                      i \in {j \in 1..Len(cleaned_rows) : ~IsNull(cleaned_rows[j].event)}})

\* The payload of upsert_dim_dates: sorted(set(event_date)).
DatesPayload(cleaned_rows) ==
    LET dates == {cleaned_rows[i].event_date : i \in 1..Len(cleaned_rows)}
    IN [i \in 1..Cardinality(dates) |->
           [date_key |-> CHOOSE d \in dates : Cardinality({e \in dates : e < d}) = i - 1]]

\* The open transaction after the first k rows of a payload.
Pending(table, payload, statement, k) ==
    ExecuteMany(table, SubSeq(payload, 1, k), statement)

\* upsert_dim_users: the executemany raises at row k + 1
LoadDimUsersFails ==
    /\ pc = "bad_written"
    /\ cleaned # <<>>
    /\ \E k \in 0 .. Len(DimUsersPayload(cleaned)) - 1 :
          db' = [db EXCEPT !.dim_users =
                    Rollback(@, Pending(@, DimUsersPayload(cleaned),
                                        "INSERT INTO dim_users ... ON CONFLICT(user_id) DO UPDATE",
                                        k))]
    /\ pc' = "raised"
    /\ UNCHANGED <<Inputs, runs, RunLocals, bad_file, report, rerun>>

\* upsert_dim_event_types: the executemany raises at row k + 1
LoadDimEventTypesFails ==
    /\ pc = "dim_users"
    /\ cleaned # <<>>
    /\ \E k \in 0 .. Len(EventTypesPayload(cleaned)) - 1 :
          db' = [db EXCEPT !.dim_event_types =
                    Rollback(@, Pending(@, EventTypesPayload(cleaned),
                                        "INSERT OR IGNORE INTO dim_event_types(event)", k))]
    /\ pc' = "raised"
    /\ UNCHANGED <<Inputs, runs, RunLocals, bad_file, report, rerun>>

\* upsert_dim_dates: the executemany raises at row k + 1
LoadDimDatesFails ==
    /\ pc = "dim_event_types"
    /\ \E k \in 0 .. Len(DatesPayload(cleaned)) - 1 :
          db' = [db EXCEPT !.dim_dates =
                    Rollback(@, @ \cup {DatesPayload(cleaned)[i] : i \in 1..k})]
    /\ pc' = "raised"
    /\ UNCHANGED <<Inputs, runs, RunLocals, bad_file, report, rerun>>

\* upsert_fact_events: the executemany raises at row k + 1
LoadFactEventsFails ==
    /\ pc = "et_map"
    /\ ~FactPayloadRaises(cleaned, et_map)
    /\ \E k \in 0 .. Len(cleaned) - 1 :
          db' = [db EXCEPT !.fact_events =
                    Rollback(@, Pending(@, FactPayload(cleaned, et_map),
                                        "INSERT INTO fact_events ... ON CONFLICT(event_id) DO UPDATE",
                                        k))]
    /\ pc' = "raised"
    /\ UNCHANGED <<Inputs, runs, RunLocals, bad_file, report, rerun>>

\* Runs over one warehouse in which any upsert may meet a persistence failure.
NextFail ==
    \/ Next
    \/ LoadDimUsersFails
    \/ LoadDimEventTypesFails
    \/ LoadDimDatesFails
    \/ LoadFactEventsFails

SpecFail == Init /\ [][NextFail]_vars

(* upsert_fact_events called on its own, MaxRuns times over one warehouse,  *)
(* with frames of up to MaxRows rows whose event is a kind, a kind spelled  *)
(* "None", or null.                                                         *)

LoadEvents == {Str_signup, Str_None, None}

LoadRows ==
    {Joined([event_id |-> id, ts |-> 23, user_id |-> <<"1">>, event |-> ev,
             amount |-> 7, event_date |-> EventDate(23), event_hour |-> EventHour(23)],
            "US", "organic") : id \in EventIds, ev \in LoadEvents}

\* upsert_fact_events(conn, cleaned) once more, on another frame
CallUpsertFactEvents ==
    /\ pc \in {"loaded", "raised"}
    /\ runs < MaxRuns
    /\ cleaned' \in SeqsUpTo(LoadRows, MaxRows)
    /\ et_map' = {}
    /\ runs' = runs + 1
    /\ pc' = "dim_users"
    /\ UNCHANGED <<Inputs, ing, bad_from_transform, metrics, bad_file, db, report, rerun>>

InitLoad ==
    /\ events_file = <<>>
    /\ users_file = <<>>
    /\ stable_sort = TRUE
    /\ pc = "dim_users"
    /\ runs = 1
    /\ ing = NoIngest
    /\ cleaned \in SeqsUpTo(LoadRows, MaxRows)
    /\ bad_from_transform = <<>>
    /\ metrics = ZeroMetrics
    /\ bad_file = <<>>
    /\ db = EmptyDb
    /\ et_map = {}
    /\ report = NoReport
    /\ intl = NoSales
    /\ rerun = FALSE

NextLoad ==
    \/ LoadNoFacts
    \/ LoadDimEventTypes
    \/ LoadDimDates
    \/ ReadEventTypeIdMap
    \/ LoadFactEvents
    \/ CallUpsertFactEvents

SpecLoad == InitLoad /\ [][NextLoad]_vars

(* load.py: upsert_fact_international_sales, called on its own over one     *)
(* warehouse.  The schema of dim_customers, dim_products and                *)
(* fact_international_sales is as the specification describes it: a unique  *)
(* name with the next integer as id, and sale_id as the key of the facts.   *)

SalesRequired == {"sale_id", "ts", "date_key", "customer", "sku", "gross_amt"}

SalesColumns == SalesRequired \cup {"pcs"}

NextId(ids) == IF ids = {} THEN 1 ELSE 1 + CHOOSE m \in ids : \A n \in ids : n <= m

\* INSERT OR IGNORE INTO dim_customers(customer_name)
InsertOrIgnoreCustomer(table, name) ==
    IF \E r \in table : r.customer_name = name THEN table
    ELSE table \cup {[customer_name |-> name,
                      customer_id |-> NextId({r.customer_id : r \in table})]}

\* INSERT OR IGNORE INTO dim_products(sku)
InsertOrIgnoreProduct(table, sku) ==
    IF \E r \in table : r.sku = sku THEN table
    ELSE table \cup {[sku |-> sku, product_id |-> NextId({r.product_id : r \in table})]}

\* sorted(set(frame[column].dropna().astype(str).tolist()))
SortedNames(frame, column) ==
    SortedStrings({AsStr(frame.rows[i][column]) :
                      i \in {j \in 1..Len(frame.rows) : ~IsNull(frame.rows[j][column])}})

\* upsert_dim_customers(conn, intl)
UpsertDimCustomers(table, frame) ==
    IF frame.rows = <<>> \/ "customer" \notin frame.columns THEN table
    ELSE LET names == SortedNames(frame, "customer")
             after[i \in 0..Len(names)] ==
                 IF i = 0 THEN table ELSE InsertOrIgnoreCustomer(after[i - 1], names[i])
         IN after[Len(names)]

\* upsert_dim_products(conn, intl)
UpsertDimProducts(table, frame) ==
    IF frame.rows = <<>> \/ "sku" \notin frame.columns THEN table
    ELSE LET names == SortedNames(frame, "sku")
             after[i \in 0..Len(names)] ==
                 IF i = 0 THEN table ELSE InsertOrIgnoreProduct(after[i - 1], names[i])
         IN after[Len(names)]

\* rows["customer"].astype(str).map(c_map).astype("Int64") for one cell: an
\* id, or NA when the lookup has no such name.
HasCustomer(dim_customers, v) == \E r \in dim_customers : r.customer_name = AsStr(v)

CustomerId(dim_customers, v) ==
    (CHOOSE r \in dim_customers : r.customer_name = AsStr(v)).customer_id

\* rows["sku"].astype(str).map(p_map).astype("Int64") for one cell
HasProduct(dim_products, v) == \E r \in dim_products : r.sku = AsStr(v)

ProductId(dim_products, v) == (CHOOSE r \in dim_products : r.sku = AsStr(v)).product_id

\* pd.to_numeric(rows.get("pcs", pd.NA), errors="coerce").astype("Int64"):
\* without a pcs column to_numeric returns a scalar, whose astype raises.
SalesTypesRaise(frame) == "pcs" \notin frame.columns

\* The loop skips the row: continue.
SaleSkipped(r, d) ==
    \/ ~HasCustomer(d.dim_customers, r.customer)
    \/ ~HasProduct(d.dim_products, r.sku)
    \/ ToNumeric(r.gross_amt) = NaNAmount

\* One tuple of the payload.
SaleRow(r, d) ==
    [sale_id |-> r.sale_id,
     ts |-> r.ts,
     date_key |-> r.date_key,
     customer_id |-> CustomerId(d.dim_customers, r.customer),
     product_id |-> ProductId(d.dim_products, r.sku),
     pcs |-> ToNumeric(r.pcs),
     gross_amt |-> ToNumeric(r.gross_amt)]

RECURSIVE SalesPayloadFrom(_, _, _)
SalesPayloadFrom(rows, d, i) ==
    IF i > Len(rows) THEN <<>>
    ELSE (IF SaleSkipped(rows[i], d) THEN <<>> ELSE <<SaleRow(rows[i], d)>>)
             \o SalesPayloadFrom(rows, d, i + 1)

SalesPayload(frame, d) == SalesPayloadFrom(frame.rows, d, 1)

\* INSERT INTO fact_international_sales ... ON CONFLICT(sale_id) DO UPDATE
UpsertSale(table, row) == {r \in table : r.sale_id # row.sale_id} \cup {row}

\* The executemany over the payload and the commit.
UpsertSales(table, payload) ==
    LET after[i \in 0..Len(payload)] ==
            IF i = 0 THEN table ELSE UpsertSale(after[i - 1], payload[i])
    IN after[Len(payload)]

\* What upsert_fact_international_sales returns: len(payload).
SalesCount(frame, d) == Len(SalesPayload(frame, d))

EmptySalesDb == [dim_dates |-> {}, dim_customers |-> {}, dim_products |-> {},
                 fact_international_sales |-> {}]

SaleIds == {"s1", "s2"}
Customers == {<<"a">>, <<"b">>, None}
Skus == {<<"k">>, None}
GrossAmounts == {<<"7">>, <<"9">>, <<"x">>, None}

SalesRecords ==
    [sale_id : SaleIds, ts : {23}, date_key : {EventDate(23)}, customer : Customers,
     sku : Skus, pcs : {<<"1">>}, gross_amt : GrossAmounts]

\* pd.read_json(path, lines=True): a key no line has is no column.
SalesFrame(recs, columns) ==
    [columns |-> IF recs = <<>> THEN {} ELSE columns,
     rows |-> [i \in 1..Len(recs) |->
                 [recs[i] EXCEPT !.pcs = IF "pcs" \in columns THEN @ ELSE Missing,
                                 !.gross_amt = IF "gross_amt" \in columns THEN @
                                                ELSE Missing]]]

SalesFrames(n) ==
    {SalesFrame(recs, columns) :
        recs \in SeqsUpTo(SalesRecords, n),
        columns \in {SalesColumns, SalesColumns \ {"pcs"}, SalesColumns \ {"gross_amt"}}}

\* upsert_fact_international_sales: the empty frame, the required columns,
\* upsert_dim_dates
SalesDimDates ==
    /\ pc = "sales"
    /\ IF intl.rows = <<>>
       THEN pc' = "sales_returned" /\ UNCHANGED db
       ELSE IF ~(SalesRequired \subseteq intl.columns)
       THEN pc' = "raised" /\ UNCHANGED db
       ELSE /\ db' = [db EXCEPT !.dim_dates =
                         @ \cup {[date_key |-> intl.rows[i].date_key] :
                                    i \in 1..Len(intl.rows)}]
            /\ pc' = "sales_dates"
    /\ UNCHANGED <<Inputs, runs, RunLocals, bad_file, report, rerun>>

\* upsert_dim_customers(conn, intl)
SalesDimCustomers ==
    /\ pc = "sales_dates"
    /\ db' = [db EXCEPT !.dim_customers = UpsertDimCustomers(@, intl)]
    /\ pc' = "sales_customers"
    /\ UNCHANGED <<Inputs, runs, RunLocals, bad_file, report, rerun>>

\* upsert_dim_products(conn, intl)
SalesDimProducts ==
    /\ pc = "sales_customers"
    /\ db' = [db EXCEPT !.dim_products = UpsertDimProducts(@, intl)]
    /\ pc' = "sales_products"
    /\ UNCHANGED <<Inputs, runs, RunLocals, bad_file, report, rerun>>

\* The two lookups, the type conversions, the payload, the executemany and
\* the commit.
SalesFacts ==
    /\ pc = "sales_products"
    /\ IF SalesTypesRaise(intl)
       THEN pc' = "raised" /\ UNCHANGED db
       ELSE /\ db' = [db EXCEPT !.fact_international_sales =
                         UpsertSales(@, SalesPayload(intl, db))]
            /\ pc' = "sales_returned"
    /\ UNCHANGED <<Inputs, runs, RunLocals, bad_file, report, rerun>>

\* upsert_fact_international_sales(conn, intl) once more, on a frame of up
\* to MaxDelivery rows
CallUpsertSales ==
    /\ pc \in {"sales_returned", "raised"}
    /\ runs < MaxRuns
    /\ intl' \in SalesFrames(MaxDelivery)
    /\ runs' = runs + 1
    /\ pc' = "sales"
    /\ UNCHANGED <<events_file, users_file, stable_sort, RunLocals, bad_file, db, report,
                   rerun>>

InitSales ==
    /\ events_file = <<>>
    /\ users_file = <<>>
    /\ stable_sort = TRUE
    /\ pc = "sales"
    /\ runs = 1
    /\ ing = NoIngest
    /\ cleaned = <<>>
    /\ bad_from_transform = <<>>
    /\ metrics = ZeroMetrics
    /\ bad_file = <<>>
    /\ db = EmptySalesDb
    /\ et_map = {}
    /\ report = NoReport
    /\ intl \in SalesFrames(MaxRows)
    /\ rerun = FALSE

NextSales ==
    \/ SalesDimDates
    \/ SalesDimCustomers
    \/ SalesDimProducts
    \/ SalesFacts
    \/ CallUpsertSales

SpecSales == InitSales /\ [][NextSales]_vars

-----------------------------------------------------------------------------
(* What the claims speak of.                                               *)

\* The rows transform was given, and those of them whose event is allow-listed.
InputRows == ing.events.rows
AllowListed(i) == NormalizeEvent(InputRows[i].event) \in ALLOWED_EVENTS
Group(e) == {i \in 1..Len(InputRows) : AllowListed(i) /\ InputRows[i].event_id = e}
MaxTs(G) == CHOOSE t \in {InputRows[i].ts : i \in G} : \A i \in G : InputRows[i].ts <= t

\* transform has returned (and its results are those of this run).
Transformed == pc \in {"transformed", "bad_written", "dim_users", "dim_event_types",
                       "dim_dates", "et_map", "loaded", "done"}

\* upsert_fact_events has written this run's batch.
FactsLoaded == pc = "loaded" /\ cleaned # <<>>

\* The user_id of an input row is absent: null, empty, or a null token.
RawAbsent(v) == IsNull(v) \/ Strip(v) \in {<<>>, Str_nan, Str_None, Str_NA}

\* The event columns of a cleaned row are those of input row i.
CleanedFrom(o, i) ==
    /\ o.event_id = InputRows[i].event_id
    /\ o.ts = InputRows[i].ts
    /\ o.event = NormalizeEvent(InputRows[i].event)
    /\ o.amount = ToNumeric(InputRows[i].amount)
    /\ IF RawAbsent(InputRows[i].user_id) THEN o.user_id = NA
       ELSE o.user_id = Strip(InputRows[i].user_id)

-----------------------------------------------------------------------------
(* C1: loading is idempotent.  While the pipeline runs again over the      *)
(* files the previous run read (so with the cleaned batch that run         *)
(* loaded), no step changes fact_events: after the second load the table   *)
(* holds the rows, keys and column values, it held after the first.        *)
C1_LoadIdempotent == [][rerun' => db'.fact_events = db.fact_events]_vars

\* A second run over the same files has loaded its batch again, into a warehouse
\* that an earlier run over other files had written.
C1_Witness ==
    /\ rerun
    /\ runs = 3
    /\ FactsLoaded
    /\ Cardinality(db.fact_events) = 2

(* C2: dedup correctness.  When transform returns, for every event_id that *)
(* several allow-listed input records share, exactly one output row has    *)
(* that event_id, its ts is the maximum of the group, and dedup_removed is *)
(* the number of allow-listed records minus the number of their distinct   *)
(* event_ids.                                                              *)
C2_DedupCorrect ==
    pc = "transformed" /\ InputRows # <<>> =>
        /\ \A e \in EventIds :
              Cardinality(Group(e)) >= 2 =>
                  /\ Cardinality({k \in 1..Len(cleaned) : cleaned[k].event_id = e}) = 1
                  /\ \A k \in 1..Len(cleaned) :
                        cleaned[k].event_id = e => cleaned[k].ts = MaxTs(Group(e))
        /\ metrics.dedup_removed =
              Cardinality({i \in 1..Len(InputRows) : AllowListed(i)})
                  - Cardinality({e \in EventIds : Group(e) # {}})

\* transform returned two rows for one event_id: the survivor of a group of two,
\* once for each of the two users rows of its user.
C2_TwoSurvivors ==
    /\ pc = "transformed"
    /\ Cardinality(Group("e1")) = 2
    /\ InputRows[1].ts > InputRows[2].ts
    /\ metrics.dedup_removed = 1
    /\ Len(cleaned) = 2
    /\ cleaned[1].event_id = "e1" /\ cleaned[2].event_id = "e1"
    /\ cleaned[1].ts = InputRows[1].ts /\ cleaned[2].ts = InputRows[1].ts
    /\ cleaned[1].country # cleaned[2].country

(* C3: referential integrity.  In every state of the warehouse every       *)
(* fact_events row has the event_type_id of exactly one dim_event_types    *)
(* row; and when a batch has been loaded, the row of each of its records   *)
(* points to the dimension row whose event is the canonical event kind of  *)
(* that record and of the input line it came from.                         *)
C3_ReferentialIntegrity ==
    /\ \A f \in db.fact_events :
          Cardinality({d \in db.dim_event_types :
                          d.event_type_id = f.event_type_id}) = 1
    /\ FactsLoaded =>
          \A k \in 1..Len(cleaned) :
              \E f \in db.fact_events, d \in db.dim_event_types :
                  /\ f.event_id = cleaned[k].event_id
                  /\ d.event_type_id = f.event_type_id
                  /\ d.event = cleaned[k].event
                  /\ d.event \in ALLOWED_EVENTS
                  /\ \E i \in Group(f.event_id) :
                        NormalizeEvent(InputRows[i].event) = d.event

\* Two kinds of event are in the dimension, the later id for the kind that sorts
\* first, and a fact row of each kind has been loaded.
C3_Witness ==
    /\ FactsLoaded
    /\ [event |-> Str_signup, event_type_id |-> 1] \in db.dim_event_types
    /\ [event |-> Str_pageview, event_type_id |-> 2] \in db.dim_event_types
    /\ {f.event_type_id : f \in db.fact_events} = {1, 2}

\* Line i of events.jsonl is in the quarantine file: as an entry of
\* read_events_jsonl with its line number, or as an entry of transform with its
\* event_id, ts and canonical event.
Quarantined(i) ==
    \E n \in 1..Len(bad_file) :
        \/ "_line" \in DOMAIN bad_file[n] /\ bad_file[n]._line = i
        \/ /\ "_line" \notin DOMAIN bad_file[n]
           /\ events_file[i].kind = "object"
           /\ IngestLine(events_file[i], i).to = "good"
           /\ bad_file[n]._reason = <<"invalid_event_type">>
           /\ bad_file[n].event_id = events_file[i].obj.event_id
           /\ bad_file[n].ts = events_file[i].obj.ts
           /\ bad_file[n].event = NormalizeEvent(events_file[i].obj.event)

\* Line i of events.jsonl is loaded: it is a good record of an allow-listed kind
\* and fact_events holds the row of its event_id, a row of such a record of the
\* file (the record itself, or the later record that replaced it in the dedup).
Loaded(i) ==
    /\ events_file[i].kind = "object"
    /\ IngestLine(events_file[i], i).to = "good"
    /\ NormalizeEvent(events_file[i].obj.event) \in ALLOWED_EVENTS
    /\ \E f \in db.fact_events :
          /\ f.event_id = events_file[i].obj.event_id
          /\ \E j \in 1..Len(events_file) :
                /\ events_file[j].kind = "object"
                /\ IngestLine(events_file[j], j).to = "good"
                /\ events_file[j].obj.event_id = f.event_id
                /\ events_file[j].obj.ts = f.ts
                /\ \E d \in db.dim_event_types :
                      /\ d.event_type_id = f.event_type_id
                      /\ d.event = NormalizeEvent(events_file[j].obj.event)

(* C4: partition of the input.  When a run of the pipeline has ended,      *)
(* every line of events.jsonl that is not blank is either loaded as a fact *)
(* row or written to the quarantine file, and not both.                    *)
C4_Partition ==
    RunEnded =>
        \A i \in 1..Len(events_file) :
            events_file[i].kind # "blank" => (Loaded(i) <=> ~Quarantined(i))

\* The run has ended and a record that passed read_events_jsonl is neither in
\* fact_events nor in the quarantine file: transform raised.
C4_Neither ==
    /\ pc = "raised"
    /\ Len(events_file) = 1
    /\ InputRows # <<>>
    /\ ~Loaded(1)
    /\ ~Quarantined(1)

\* transform's quarantine entry for input row i.
HasInvalidEntry(i) ==
    \E n \in 1..Len(bad_from_transform) :
        /\ bad_from_transform[n]._reason = <<"invalid_event_type">>
        /\ bad_from_transform[n].event_id = InputRows[i].event_id
        /\ bad_from_transform[n].ts = InputRows[i].ts
        /\ bad_from_transform[n].event = NormalizeEvent(InputRows[i].event)
        /\ bad_from_transform[n].user_id =
              (IF IsNull(InputRows[i].user_id) THEN None ELSE InputRows[i].user_id)

(* C5: allow-list enforcement.  Once transform has been called on a frame, *)
(* every row whose canonical event is outside ALLOWED_EVENTS has a         *)
(* quarantine entry with _reason invalid_event_type and its event_id, ts,  *)
(* user_id and event, no output row and no fact row comes from it, every   *)
(* output row's event is allowed, and invalid_event_type is the number of  *)
(* those entries.                                                          *)
C5_AllowListEnforced ==
    pc \notin {"start", "ingested"} /\ InputRows # <<>> =>
        /\ \A i \in 1..Len(InputRows) :
              ~AllowListed(i) =>
                  /\ HasInvalidEntry(i)
                  /\ \A k \in 1..Len(cleaned) : ~CleanedFrom(cleaned[k], i)
        /\ \A k \in 1..Len(cleaned) : cleaned[k].event \in ALLOWED_EVENTS
        /\ \A f \in db.fact_events :
              \E d \in db.dim_event_types :
                  d.event_type_id = f.event_type_id /\ d.event \in ALLOWED_EVENTS
        /\ metrics.invalid_event_type = Len(bad_from_transform)
        /\ metrics.invalid_event_type =
              Cardinality({i \in 1..Len(InputRows) : ~AllowListed(i)})

\* transform raised on a frame without a user_id column that holds a record of a
\* kind outside the allow-list: the record has no quarantine entry.
C5_NoEntry ==
    /\ pc = "raised"
    /\ InputRows # <<>>
    /\ "user_id" \notin ing.events.columns
    /\ \E i \in 1..Len(InputRows) : ~AllowListed(i) /\ ~HasInvalidEntry(i)

(* C6: counting identity of transform.  When transform returns, rows_out   *)
(* plus invalid_event_type is the number of input rows less the rows the   *)
(* deduplication by event_id removed.                                      *)
C6_CountingIdentity ==
    pc = "transformed" /\ InputRows # <<>> =>
        metrics.rows_out + metrics.invalid_event_type
            = Len(InputRows) - metrics.dedup_removed

\* One input row, nothing invalid, nothing removed by the dedup, two rows out.
C6_MoreRowsOut ==
    /\ pc = "transformed"
    /\ Len(InputRows) = 1
    /\ metrics.invalid_event_type = 0
    /\ metrics.dedup_removed = 0
    /\ metrics.rows_out = 2

(* C7: canonicalization.  transform turns every case, whitespace or hyphen *)
(* variant of the page-view synonyms into exactly pageview, with no        *)
(* quarantine entry and invalid_event_type = 0, and leaves an event that   *)
(* is already canonical as it is.                                          *)
C7_Canonicalization ==
    pc \notin {"start", "ingested"} /\ Len(InputRows) = 1 =>
        /\ InputRows[1].event \in PageviewVariants =>
              /\ pc = "transformed"
              /\ Len(cleaned) = 1
              /\ cleaned[1].event = Str_pageview
              /\ bad_from_transform = <<>>
              /\ metrics.invalid_event_type = 0
        /\ InputRows[1].event \in ALLOWED_EVENTS =>
              /\ pc = "transformed"
              /\ Len(cleaned) = 1
              /\ cleaned[1].event = InputRows[1].event

Str_PAGE_two_spaces_VIEW == <<"P", "A", "G", "E", " ", " ", "V", "I", "E", "W">>
Str_page_two_underscores_view == <<"p", "a", "g", "e", "_", "_", "v", "i", "e", "w">>

\* 'PAGE  VIEW' is quarantined as the unknown kind 'page__view'.
C7_TwoSpacesQuarantined ==
    /\ pc = "transformed"
    /\ Len(InputRows) = 1
    /\ InputRows[1].event = Str_PAGE_two_spaces_VIEW
    /\ cleaned = <<>>
    /\ Len(bad_from_transform) = 1
    /\ bad_from_transform[1].event = Str_page_two_underscores_view
    /\ metrics.invalid_event_type = 1

\* The last row of the batch with the event_id of row k.
LastOfEventId(k) ==
    CHOOSE m \in 1..Len(cleaned) :
        /\ cleaned[m].event_id = cleaned[k].event_id
        /\ \A n \in (m + 1)..Len(cleaned) : cleaned[n].event_id # cleaned[k].event_id

\* The value SQLite stores for a batch value: NULL for the null marker.
SqlValue(v) == IF IsNull(v) THEN None ELSE v

(* C8: fact upsert by natural key.  In every state of the warehouse        *)
(* fact_events holds at most one row per event_id; and when a batch has    *)
(* been loaded, the row of each of its event_ids holds the ts, user_id     *)
(* (NULL for the null marker), event_type_id, amount, event_date and       *)
(* event_hour of that batch's record, whatever the table held before.      *)
C8_FactUpsertByKey ==
    /\ \A f, g \in db.fact_events : f.event_id = g.event_id => f = g
    /\ FactsLoaded =>
          \A k \in 1..Len(cleaned) :
              LET r == cleaned[LastOfEventId(k)]
              IN \E f \in db.fact_events :
                    /\ f.event_id = r.event_id
                    /\ f.ts = r.ts
                    /\ f.user_id = SqlValue(r.user_id)
                    /\ [event |-> r.event, event_type_id |-> f.event_type_id]
                          \in db.dim_event_types
                    /\ f.amount = r.amount
                    /\ f.event_date = r.event_date
                    /\ f.event_hour = r.event_hour

\* A later run has overwritten the row of e1, and the row holds the text '<NA>'
\* where the batch holds the null marker.
C8_TextForNull ==
    /\ FactsLoaded
    /\ runs > 1
    /\ ~rerun
    /\ Len(cleaned) = 1
    /\ cleaned[1].user_id = NA
    /\ \E f \in db.fact_events :
          /\ f.event_id = cleaned[1].event_id
          /\ f.ts = cleaned[1].ts
          /\ f.user_id = Str_NA

\* Output row k has a user_id that no row of the users table has.
Unmatched(k) ==
    /\ ~IsNull(cleaned[k].user_id)
    /\ ~\E u \in 1..Len(users_file) : users_file[u].user_id = cleaned[k].user_id

\* Output row k comes from an input row whose user_id is absent.
AbsentInSource(k) ==
    \E i \in 1..Len(InputRows) :
        CleanedFrom(cleaned[k], i) /\ RawAbsent(InputRows[i].user_id)

C10_LeftJoinPreservesRows ==
    RunEnded /\ InputRows # <<>> =>
        /\ \A e \in EventIds :
              Group(e) # {} =>
                  /\ \E k \in 1..Len(cleaned) : cleaned[k].event_id = e
                  /\ \E f \in db.fact_events : f.event_id = e
        /\ \A k \in 1..Len(cleaned) :
              IF IsNull(cleaned[k].user_id) \/ Unmatched(k)
              THEN cleaned[k].country = NaNText /\ cleaned[k].signup_source = NaNText
              ELSE \E u \in 1..Len(users_file) :
                      /\ users_file[u].user_id = cleaned[k].user_id
                      /\ users_file[u].country = cleaned[k].country
                      /\ users_file[u].signup_source = cleaned[k].signup_source

\* The run ended with an allow-listed record without user_id in neither the
\* output nor fact_events: the frame also held a record of an unknown kind.
C10_RowLost ==
    /\ pc = "raised"
    /\ Len(InputRows) = 2
    /\ "user_id" \notin ing.events.columns
    /\ ~AllowListed(1)
    /\ AllowListed(2)
    /\ cleaned = <<>>
    /\ db.fact_events = {}

\* The lines of events.jsonl that are objects with event_id, ts and event and a
\* timestamp that parses, and the other lines that are not blank.
PassingLines ==
    {i \in 1..Len(events_file) :
        /\ events_file[i].kind = "object"
        /\ events_file[i].obj.event_id # MissingId
        /\ events_file[i].obj.ts \notin {MissingTs, BAD_TIME}
        /\ events_file[i].obj.event # Missing}

FailingLines ==
    {i \in 1..Len(events_file) : events_file[i].kind # "blank"} \ PassingLines

\* The names of the required fields that an object lacks, in sorted order.
SortedMissingNames(obj) ==
    (IF obj.event = Missing THEN <<"event">> ELSE <<>>)
        \o (IF obj.event_id = MissingId THEN <<"event_id">> ELSE <<>>)
        \o (IF obj.ts = MissingTs THEN <<"ts">> ELSE <<>>)

\* The reason of the first check that line i fails: JSON parse, required
\* fields, timestamp parse.  A JSON value that is no object has no field.
FirstFailure(i) ==
    LET line == events_file[i]
    IN IF line.kind = "bad_json" THEN <<"json_decode_error", line.msg>>
       ELSE IF line.kind = "not_object"
       THEN <<"missing_fields", "event", "event_id", "ts">>
       ELSE IF SortedMissingNames(line.obj) # <<>>
       THEN <<"missing_fields">> \o SortedMissingNames(line.obj)
       ELSE <<"invalid_timestamp">>

\* The number of lines of S up to line i.
RankIn(S, i) == Cardinality({j \in S : j <= i})

\* read_events_jsonl has been called in this run.
IngestCalled == pc # "start"

(* C11: ingest validation sequence.  Once read_events_jsonl has been       *)
(* called, every line that is not blank and fails a check has exactly one  *)
(* quarantine entry, with its 1-based line number and the reason of the    *)
(* first check it fails in the order JSON parse, required fields,          *)
(* timestamp parse; and every line that passes the three checks is one row *)
(* of the good records, in file order, and has no quarantine entry.        *)
C11_ValidationSequence ==
    IngestCalled =>
        /\ Len(ing.bad_records) = Cardinality(FailingLines)
        /\ \A i \in FailingLines :
              /\ ing.bad_records[RankIn(FailingLines, i)]._line = i
              /\ ing.bad_records[RankIn(FailingLines, i)]._reason = FirstFailure(i)
        /\ Len(ing.events.rows) = Cardinality(PassingLines)
        /\ \A i \in PassingLines :
              LET row == ing.events.rows[RankIn(PassingLines, i)]
              IN /\ row.event_id = events_file[i].obj.event_id
                 /\ row.ts = events_file[i].obj.ts
                 /\ row.event = events_file[i].obj.event
                 /\ row.user_id = FillMissing(events_file[i].obj.user_id)

\* read_events_jsonl raised on a line that is JSON but no object, after a line
\* that passes every check: nothing is emitted and nothing is quarantined.
C11_LinesLost ==
    /\ pc = "raised"
    /\ Len(events_file) = 2
    /\ PassingLines = {1}
    /\ events_file[2].kind = "not_object"
    /\ ing.events.rows = <<>>
    /\ ing.bad_records = <<>>

\* read_events_jsonl ended by an exception: main() ended before transform, which
\* raises only on a frame with rows.
IngestRaised == pc = "raised" /\ InputRows = <<>>

(* C12: record-level errors never escape the validation stage.  For every  *)
(* events.jsonl, the empty file and files with lines that are JSON but no  *)
(* object included, read_events_jsonl returns, and every line that is not  *)
(* blank and fails a check has a quarantine entry.                         *)
C12_NoEscape ==
    IngestCalled =>
        /\ ~IngestRaised
        /\ \A i \in FailingLines :
              \E n \in 1..Len(ing.bad_records) : ing.bad_records[n]._line = i

\* read_events_jsonl raised on a file without any line.
C12_EmptyFileRaises ==
    /\ events_file = <<>>
    /\ IngestRaised
    /\ bad_file = <<>>

\* events.jsonl holds no record: no line at all, or blank lines only.
EmptyInput == \A i \in 1..Len(events_file) : events_file[i].kind = "blank"

(* C13: empty batch.  While the pipeline runs over an events.jsonl without *)
(* records, no step writes to the warehouse and transform quarantines      *)
(* nothing; and the run ends without error, with dedup_removed,            *)
(* invalid_event_type, null_user_id and rows_out all 0 and no output row.  *)
C13_EmptyBatch ==
    [][EmptyInput' =>
          /\ db' = db
          /\ bad_from_transform' = <<>>
          /\ RunEnded' => /\ pc' = "done"
                          /\ metrics' = ZeroMetrics
                          /\ cleaned' = <<>>]_vars

\* A later run over a file without any line ended by an exception.
C13_RunFails ==
    /\ events_file = <<>>
    /\ runs > 1
    /\ pc = "raised"
    /\ db.fact_events # {}

(* C14: event-type surrogate ids are stable.  No step removes or changes a *)
(* row of dim_event_types; a step adds rows only for kinds that have no    *)
(* row yet; and no two rows ever share an event kind or an event_type_id.  *)
C14_StableEventTypeIds ==
    [][/\ db.dim_event_types \subseteq db'.dim_event_types
       /\ \A r \in db'.dim_event_types \ db.dim_event_types :
             ~\E q \in db.dim_event_types : q.event = r.event
       /\ \A r, q \in db'.dim_event_types :
             (r.event = q.event \/ r.event_type_id = q.event_type_id) => r = q]_vars

\* The third run has upserted the kind of its batch, signup, which has had id 1
\* since an earlier run, after another run added pageview under id 2.
C14_Witness ==
    /\ runs = 3
    /\ pc = "dim_event_types"
    /\ Len(cleaned) = 1
    /\ cleaned[1].event = Str_signup
    /\ db.dim_event_types = {[event |-> Str_signup, event_type_id |-> 1],
                             [event |-> Str_pageview, event_type_id |-> 2]}

\* The last row of the batch with the user_id of row k.
LastOfUserId(k) ==
    CHOOSE m \in 1..Len(cleaned) :
        /\ cleaned[m].user_id = cleaned[k].user_id
        /\ \A n \in (m + 1)..Len(cleaned) : cleaned[n].user_id # cleaned[k].user_id

\* A user attribute as dim_users holds it: 'unknown' where the batch has none.
OrUnknown(v) == IF v = NaNText THEN "unknown" ELSE v

(* C15: user dimension upsert.  dim_users never holds a row for a null or  *)
(* empty user_id (nor for a null token); and when upsert_dim_users has run *)
(* on a batch, every other user_id of the batch has exactly one dim_users  *)
(* row, with the country and signup_source of the last batch row of that   *)
(* user_id, 'unknown' where they are absent.                               *)
C15_DimUsersUpsert ==
    /\ \A r \in db.dim_users :
          Strip(r.user_id) \notin {<<>>, Str_NA, Str_nan, Str_None}
    /\ \A r, q \in db.dim_users : r.user_id = q.user_id => r = q
    /\ pc = "dim_users" =>
          \A k \in 1..Len(cleaned) :
              ~IsNull(cleaned[k].user_id) =>
                  [user_id |-> cleaned[k].user_id,
                   country |-> OrUnknown(cleaned[LastOfUserId(k)].country),
                   signup_source |-> OrUnknown(cleaned[LastOfUserId(k)].signup_source)]
                      \in db.dim_users

\* upsert_dim_users has written the row '<NA>', 'unknown', 'unknown' for a batch
\* whose only record has no user_id.
C15_RowForNullUser ==
    /\ pc = "dim_users"
    /\ Len(cleaned) = 1
    /\ cleaned[1].user_id = NA
    /\ db.dim_users = {[user_id |-> Str_NA, country |-> "unknown",
                        signup_source |-> "unknown"]}

(* C16 *)

\* A report has been written.
ReportWritten == report # NoReport

\* The report is the one a pipeline run built.
ReportOfRun == pc = "done"

\* the float f is the quotient a / b
IsQuotient(f, a, b) == f.den > 0 /\ f.num * b = a * f.den

\* C16: every written quality report has rejected_total = ingest_bad +
\* transform_invalid_event_type and reject_rate = rejected_total / raw_lines
\* when raw_lines > 0 and 0 when raw_lines = 0; the report a pipeline run
\* builds has raw_lines = ingest_good + ingest_bad and rejected_total <=
\* raw_lines.
C16_QualityMetrics ==
    ReportWritten =>
        /\ report.rejected_total = report.ingest_bad + report.transform_invalid_event_type
        /\ report.raw_lines > 0 =>
               IsQuotient(report.reject_rate, report.rejected_total, report.raw_lines)
        /\ report.raw_lines = 0 => IsQuotient(report.reject_rate, 0, 1)
        /\ ReportOfRun =>
               /\ report.raw_lines = report.ingest_good + report.ingest_bad
               /\ report.raw_lines = Len(ing.events.rows) + Len(ing.bad_records)
               /\ report.rejected_total <= report.raw_lines

\* A run of two records, one rejected by ingest and the other by transform:
\* the rate is 1.
C16_AllRejected ==
    /\ ReportOfRun
    /\ report.ingest_bad = 1
    /\ report.transform_invalid_event_type = 1
    /\ report.ingest_good = 1
    /\ report.reject_rate = [num |-> 1, den |-> 1]

(* C17 *)

\* The user dimension holds the batch: upserting it again changes nothing.
UsersCommitted == db.dim_users = UpsertDimUsers(db.dim_users, cleaned)

\* The event-type dimension holds every kind of the batch.
EventTypesCommitted ==
    \A i \in 1..Len(cleaned) :
        ~IsNull(cleaned[i].event) =>
            \E r \in db.dim_event_types : r.event = AsStr(cleaned[i].event)

\* The date dimension holds every event_date of the batch.
DatesCommitted ==
    \A i \in 1..Len(cleaned) : [date_key |-> cleaned[i].event_date] \in db.dim_dates

\* The lookup is the one read from the dimension as it stands.
LookupReread == et_map = EventTypeIdMap(db.dim_event_types)

\* The tables a step writes.
Written ==
    {t \in {"dim_users", "dim_event_types", "dim_dates", "fact_events"} : db'[t] # db[t]}

\* A step that reads the lookup.
LookupRead == et_map' # et_map /\ et_map' # {}

\* No fact row is written before the three dimensions hold the batch and
\* the lookup has been read from them; a step writes one table at most.
FactsLast ==
    /\ Cardinality(Written) <= 1
    /\ LookupRead => UsersCommitted /\ EventTypesCommitted /\ DatesCommitted
    /\ "fact_events" \in Written =>
           UsersCommitted /\ EventTypesCommitted /\ DatesCommitted /\ LookupReread

\* C17 as stated: the order is event types, dates, users, lookup, facts, so
\* the event-type and date dimensions hold the batch when the user dimension
\* is written, and the event-type dimension holds it when dates are written.
C17_LoadOrdering ==
    [][/\ "dim_dates" \in Written => EventTypesCommitted
       /\ "dim_users" \in Written => EventTypesCommitted /\ DatesCommitted
       /\ FactsLast]_vars

\* C17 with the order of the code: users, event types, dates, lookup, facts.
\* The user dimension holds the batch when the event-type dimension is
\* written, both hold it when dates are written, and no fact row is written
\* before all three hold it and the lookup has been re-read.
C17_UsersFirst ==
    [][/\ "dim_event_types" \in Written => UsersCommitted
       /\ "dim_dates" \in Written => UsersCommitted /\ EventTypesCommitted
       /\ FactsLast]_vars

\* The user dimension of a first run is written and no event type is yet.
C17_UsersBeforeEventTypes ==
    /\ runs = 1
    /\ pc = "dim_users"
    /\ cleaned # <<>>
    /\ db.dim_users # {}
    /\ db.dim_event_types = {}
    /\ db.dim_dates = {}

(* C18 *)

\* The steps of the load in which a batch is applied.
BatchSteps == {"bad_written", "dim_users", "dim_event_types", "et_map"}

\* A step in which the load raises.
LoadRaises == pc \in BatchSteps /\ pc' = "raised"

\* C18: when a dimension or fact upsert raises while its batch is applied,
\* the warehouse is what it was before the batch (no row of the batch is
\* persisted), the run ends raised, and nothing is written until another
\* run starts.
C18_BatchAtomicity ==
    [][/\ LoadRaises => db' = db
       /\ pc = "raised" => /\ db' = db
                           /\ pc' # "raised" => pc' = "start" /\ runs' = runs + 1]_vars

\* The fact upsert of a first run of two records failed: the dimensions hold
\* the batch and the fact table holds none of its rows.
C18_FactBatchFailed ==
    /\ runs = 1
    /\ pc = "raised"
    /\ Len(cleaned) = 2
    /\ cleaned[1].event_id # cleaned[2].event_id
    /\ et_map # {}
    /\ EventTypesCommitted /\ DatesCommitted
    /\ db.fact_events = {}

(* C19 *)

\* No dim_event_types row is of the record's event kind.
NoEventTypeRow(r) == ~\E t \in db.dim_event_types : t.event = r.event

\* The fact table has a row of the record.
HasFactRow(r) == \E f \in db.fact_events : f.event_id = r.event_id

\* C19: when upsert_fact_events reaches its payload with a record whose
\* event kind has no dim_event_types row (a null event, say), it raises and
\* leaves fact_events as it was.
C19_UnresolvableFatal ==
    [][(pc = "et_map" /\ \E i \in 1..Len(cleaned) : NoEventTypeRow(cleaned[i]))
          => pc' = "raised" /\ db'.fact_events = db.fact_events]_vars

\* upsert_fact_events returned and the fact table has the row of a record
\* whose event is null.
C19_NullEventLoaded ==
    /\ pc = "loaded"
    /\ \E i \in 1..Len(cleaned) : IsNull(cleaned[i].event) /\ HasFactRow(cleaned[i])

(* C20 *)

\* The keys of the four tables.
FactKeys(d) == {f.event_id : f \in d.fact_events}
UserKeys(d) == {u.user_id : u \in d.dim_users}
EventTypeKeys(d) == {t.event_type_id : t \in d.dim_event_types}
DateKeys(d) == {t.date_key : t \in d.dim_dates}

\* C20: no step of any run, failing runs included, removes a key: the
\* event_ids of fact_events and the keys of each dimension only grow.
C20_MonotonicWarehouse ==
    [][/\ FactKeys(db) \subseteq FactKeys(db')
       /\ UserKeys(db) \subseteq UserKeys(db')
       /\ EventTypeKeys(db) \subseteq EventTypeKeys(db')
       /\ DateKeys(db) \subseteq DateKeys(db')]_vars

\* A second run of one record has ended and the fact table holds two
\* events: the row of the earlier run is still there.
C20_EarlierRowKept ==
    /\ runs = 2
    /\ pc = "done"
    /\ Len(cleaned) = 1
    /\ Cardinality(FactKeys(db)) = 2

(* C22 *)

\* The records of a group that have its maximum ts.
Latest(G) == {i \in G : InputRows[i].ts = MaxTs(G)}

\* The last index of a set of input rows.
LastIndex(T) == CHOOSE i \in T : \A j \in T : j <= i

Surviving == {e \in EventIds : Group(e) # {}}

\* C23: when transform returns, its output has each surviving event_id once,
\* rows_out = len(output) = input rows - invalid_event_type - dedup_removed,
\* and once the facts are loaded the count upsert_fact_events returns is the
\* number of fact rows it wrote.
C23_TransformConserves ==
    /\ Transformed =>
          /\ \A e \in Surviving :
                Cardinality({k \in 1..Len(cleaned) : cleaned[k].event_id = e}) = 1
          /\ metrics.rows_out = Len(cleaned)
          /\ Len(cleaned) = Len(InputRows) - metrics.invalid_event_type
                               - metrics.dedup_removed
    /\ pc = "loaded" =>
          FactEventsCount(cleaned, et_map) = Cardinality(db.fact_events)

\* One input record of a user with two users rows: two output rows, a
\* count of 2 returned by the load, one fact row written.
C23_FanOut ==
    /\ pc = "loaded"
    /\ Len(InputRows) = 1
    /\ Len(users_file) = 2
    /\ metrics.rows_out = 2
    /\ FactEventsCount(cleaned, et_map) = 2
    /\ Cardinality(db.fact_events) = 1

(* C24 *)

\* The textual null tokens.
NullTokens == {Str_NA, Str_nan, Str_None}

\* The users of the batch that were active on a date.
ActiveUsers(d) ==
    {cleaned[k].user_id : k \in {j \in 1..Len(cleaned) :
                                    /\ cleaned[j].event_date = d
                                    /\ ~IsNull(cleaned[j].user_id)}}

\* C24: once a batch is loaded into a new warehouse, the fact row of every
\* record whose user_id is the null marker has user_id NULL, no dim_users
\* row is of a null token, and query_dau counts, per date, the users of
\* the batch that have a user_id.
C24_AbsentUserStaysNull ==
    FactsLoaded =>
        /\ \A k \in 1..Len(cleaned) :
              IsNull(cleaned[k].user_id) =>
                  \A f \in db.fact_events :
                      f.event_id = cleaned[k].event_id => f.user_id = None
        /\ \A f \in db.fact_events : f.user_id \notin NullTokens
        /\ \A u \in db.dim_users : u.user_id \notin NullTokens
        /\ QueryDau(db.fact_events) =
              [d \in {e \in {cleaned[k].event_date : k \in 1..Len(cleaned)} :
                         ActiveUsers(e) # {}} |-> Cardinality(ActiveUsers(d))]

\* The one record of the batch has no user_id, and query_dau reports one
\* active user on its date: the text '<NA>'.
C24_NullTokenCounted ==
    /\ FactsLoaded
    /\ Len(cleaned) = 1
    /\ IsNull(cleaned[1].user_id)
    /\ QueryDau(db.fact_events) = [d \in {cleaned[1].event_date} |-> 1]
    /\ \E f \in db.fact_events : f.user_id = Str_NA

(* C21 *)

\* The rows of the frame that are to be loaded: a customer, a sku and a
\* numeric gross_amt.
SaleKept ==
    {i \in 1..Len(intl.rows) :
        /\ ~IsNull(intl.rows[i].customer)
        /\ ~IsNull(intl.rows[i].sku)
        /\ intl.rows[i].gross_amt # Missing
        /\ ToNumeric(intl.rows[i].gross_amt) # NaNAmount}

\* The last kept row of the sale_id of row i.
LastOfSaleId(i) ==
    CHOOSE j \in SaleKept :
        /\ intl.rows[j].sale_id = intl.rows[i].sale_id
        /\ \A m \in SaleKept : intl.rows[m].sale_id = intl.rows[i].sale_id => m <= j

\* The fact row of a kept row: its columns, and the ids of the dimension rows
\* of its customer and its sku.
SaleFactOf(i) ==
    [sale_id |-> intl.rows[i].sale_id,
     ts |-> intl.rows[i].ts,
     date_key |-> intl.rows[i].date_key,
     customer_id |-> (CHOOSE c \in db.dim_customers :
                         c.customer_name = intl.rows[i].customer).customer_id,
     product_id |-> (CHOOSE q \in db.dim_products : q.sku = intl.rows[i].sku).product_id,
     pcs |-> ToNumeric(intl.rows[i].pcs),
     gross_amt |-> ToNumeric(intl.rows[i].gross_amt)]

\* The dimensions hold every customer and every sku of the frame.
SalesDimsCommitted ==
    \A i \in 1..Len(intl.rows) :
        /\ ~IsNull(intl.rows[i].customer) =>
               \E c \in db.dim_customers : c.customer_name = intl.rows[i].customer
        /\ ~IsNull(intl.rows[i].sku) =>
               \E q \in db.dim_products : q.sku = intl.rows[i].sku

\* C21: upsert_fact_international_sales never raises; it writes a sales fact
\* only once the customer and product dimensions hold the frame; the rows
\* without customer, sku or numeric gross_amt leave no trace, every other
\* row is upserted by sale_id, the last one of a sale_id overwriting, and the
\* count returned is the number of rows kept.
C21_SecondarySalesStream ==
    [][/\ pc' # "raised"
       /\ db'.fact_international_sales # db.fact_international_sales => SalesDimsCommitted
       /\ pc = "sales_products" =>
              /\ SalesDimsCommitted
              /\ db'.fact_international_sales =
                     {f \in db.fact_international_sales :
                         \A i \in SaleKept : intl.rows[i].sale_id # f.sale_id}
                        \cup {SaleFactOf(LastOfSaleId(i)) : i \in SaleKept}
              /\ SalesCount(intl, db) = Cardinality(SaleKept)]_vars

\* A frame of one complete row and no pcs column: the dimensions have its
\* customer and its sku, the call raised, and no sales fact is written.
C21_RaisesWithoutPcs ==
    /\ pc = "raised"
    /\ runs = 1
    /\ intl.columns = SalesColumns \ {"pcs"}
    /\ Len(intl.rows) = 1
    /\ SaleKept = {1}
    /\ SalesDimsCommitted
    /\ db.fact_international_sales = {}

====
